---- MODULE Spec2Model ----
(***************************************************************************)
(* A model of three parts of polars / py-polars:                           *)
(*   - polars/src/chunked_array/temporal.rs : the conversions between the  *)
(*     physical integer encodings and chrono's date / time / datetime;     *)
(*   - py-polars/src/lazy/dataframe.rs      : the PyLazyFrame and          *)
(*     PyLazyGroupBy handles around an Option<plan>;                       *)
(*   - py-polars/src/file.rs                : the Read / Write / Seek      *)
(*     adapter around a foreign (Python) file object.                      *)
(*                                                                         *)
(* TLC's integers are 32 bits wide, the code's are i64.  An i64 is         *)
(* therefore a "wide" integer: a sign and a little-endian sequence of      *)
(* base-1000 limbs without leading zeros.  i32 values are TLC integers.    *)
(***************************************************************************)
EXTENDS Integers, Sequences, FiniteSets, TLC

(***************************************************************************)
(* i64 arithmetic on wide integers                                         *)
(***************************************************************************)
RECURSIVE MagNorm(_)
MagNorm(m) ==
    IF m = <<>> THEN <<>>
    ELSE IF m[Len(m)] = 0 THEN MagNorm(SubSeq(m, 1, Len(m) - 1))
    ELSE m

Limb(m, i) == IF i <= Len(m) THEN m[i] ELSE 0

RECURSIVE MagOfNat(_)
MagOfNat(n) == IF n = 0 THEN <<>> ELSE <<n % 1000>> \o MagOfNat(n \div 1000)

RECURSIVE MagAddC(_, _, _, _)
MagAddC(a, b, i, c) ==
    IF i > Len(a) /\ i > Len(b)
    THEN (IF c = 0 THEN <<>> ELSE <<c>>)
    ELSE LET s == Limb(a, i) + Limb(b, i) + c
         IN  <<s % 1000>> \o MagAddC(a, b, i + 1, s \div 1000)

MagAdd(a, b) == MagAddC(a, b, 1, 0)

RECURSIVE MagSubB(_, _, _, _)
MagSubB(a, b, i, br) ==
    IF i > Len(a) THEN <<>>
    ELSE LET d == Limb(a, i) - Limb(b, i) - br
         IN  IF d < 0 THEN <<d + 1000>> \o MagSubB(a, b, i + 1, 1)
             ELSE <<d>> \o MagSubB(a, b, i + 1, 0)

\* a - b for magnitudes with a >= b
MagSub(a, b) == MagNorm(MagSubB(a, b, 1, 0))

RECURSIVE MagCmpAt(_, _, _)
MagCmpAt(a, b, i) ==
    IF i = 0 THEN 0
    ELSE IF a[i] < b[i] THEN -1
    ELSE IF a[i] > b[i] THEN 1
    ELSE MagCmpAt(a, b, i - 1)

\* -1, 0, 1 as a < b, a = b, a > b
MagCmp(a, b) ==
    IF Len(a) < Len(b) THEN -1
    ELSE IF Len(a) > Len(b) THEN 1
    ELSE MagCmpAt(a, b, Len(a))

RECURSIVE MagMulLimbC(_, _, _, _)
MagMulLimbC(a, k, i, c) ==
    IF i > Len(a)
    THEN (IF c = 0 THEN <<>> ELSE <<c>>)
    ELSE LET p == a[i] * k + c
         IN  <<p % 1000>> \o MagMulLimbC(a, k, i + 1, p \div 1000)

\* a * k for one limb k in 0..999
MagMulLimb(a, k) == MagNorm(MagMulLimbC(a, k, 1, 0))

RECURSIVE MagMulFrom(_, _, _)
MagMulFrom(a, b, i) ==
    IF i > Len(b) THEN <<>>
    ELSE MagAdd(MagMulLimb(a, b[i]),
                LET r == MagMulFrom(a, b, i + 1)
                IN  IF r = <<>> THEN <<>> ELSE <<0>> \o r)

MagMul(a, b) == MagNorm(MagMulFrom(a, b, 1))

\* the largest q in lo..hi with q * d <= r (q = lo is known to qualify)
RECURSIVE QDigit(_, _, _, _)
QDigit(r, d, lo, hi) ==
    IF lo = hi THEN lo
    ELSE LET mid == (lo + hi + 1) \div 2
         IN  IF MagCmp(MagMulLimb(d, mid), r) <= 0
             THEN QDigit(r, d, mid, hi)
             ELSE QDigit(r, d, lo, mid - 1)

\* long division from the top limb: <<quotient limbs (little-endian), remainder>>
RECURSIVE MagDivFrom(_, _, _)
MagDivFrom(a, d, i) ==
    IF i > Len(a) THEN <<(<<>>), (<<>>)>>
    ELSE LET up == MagDivFrom(a, d, i + 1)
             r  == MagNorm(<<a[i]>> \o up[2])
             q  == QDigit(r, d, 0, 999)
         IN  << <<q>> \o up[1], MagSub(r, MagMulLimb(d, q)) >>

MagDiv(a, d) == MagNorm(MagDivFrom(a, d, 1)[1])
MagMod(a, d) == MagDivFrom(a, d, 1)[2]

Wide(neg, mag) == [neg |-> (neg /\ mag # <<>>), mag |-> mag]

\* a TLC integer as an i64
W(n) == IF n < 0 THEN Wide(TRUE, MagOfNat(0 - n)) ELSE Wide(FALSE, MagOfNat(n))

RECURSIVE MagToNat(_)
MagToNat(m) == IF m = <<>> THEN 0 ELSE m[1] + 1000 * MagToNat(Tail(m))

\* an i64 that fits 31 bits as a TLC integer
ToInt(w) == IF w.neg THEN 0 - MagToNat(w.mag) ELSE MagToNat(w.mag)

WNeg(a) == Wide(~a.neg, a.mag)

WAdd(a, b) ==
    IF a.neg = b.neg THEN Wide(a.neg, MagAdd(a.mag, b.mag))
    ELSE IF MagCmp(a.mag, b.mag) >= 0 THEN Wide(a.neg, MagSub(a.mag, b.mag))
    ELSE Wide(b.neg, MagSub(b.mag, a.mag))

WSub(a, b) == WAdd(a, WNeg(b))

WMul(a, b) == Wide(a.neg # b.neg, MagMul(a.mag, b.mag))

\* Rust's / and % on i64: the quotient is truncated toward zero and the
\* remainder has the sign of the dividend
WDiv(a, b) == Wide(a.neg # b.neg, MagDiv(a.mag, b.mag))
WRem(a, b) == Wide(a.neg, MagMod(a.mag, b.mag))

WLess(a, b) ==
    IF a.neg # b.neg THEN a.neg
    ELSE IF a.neg THEN MagCmp(a.mag, b.mag) > 0
    ELSE MagCmp(a.mag, b.mag) < 0

\* num_integer::div_mod_floor, which chrono uses: floored quotient and a
\* remainder in 0..b-1 (b > 0)
WDivFloor(a, b) ==
    IF a.neg /\ MagMod(a.mag, b.mag) # <<>>
    THEN WSub(WDiv(a, b), W(1))
    ELSE WDiv(a, b)
WModFloor(a, b) == WSub(a, WMul(WDivFloor(a, b), b))

\* 2^32 = 4_294_967_296
TwoTo32 == Wide(FALSE, <<296, 967, 294, 4>>)

\* `x as u32` for an i64 x: the low 32 bits
AsU32(x) == WModFloor(x, TwoTo32)

(***************************************************************************)
(* Option<T>, and the outcome of a call that panicked                      *)
(***************************************************************************)
Some(x) == [some |-> x]
None == [none |-> TRUE]
IsSome(o) == "some" \in DOMAIN o
Panic == [panic |-> TRUE]
IsPanic(v) == "panic" \in DOMAIN v

(***************************************************************************)
(* chrono, as temporal.rs uses it.  A NaiveDate is [year, month, day], a   *)
(* NaiveTime is [secs, frac] (seconds since midnight, nanoseconds; a frac  *)
(* of 1e9 and more is a leap second), a NaiveDateTime is [date, time].     *)
(***************************************************************************)
IsLeapYear(y) == (y % 4 = 0 /\ y % 100 # 0) \/ y % 400 = 0

DaysInMonth(y, m) ==
    IF m = 2 THEN (IF IsLeapYear(y) THEN 29 ELSE 28)
    ELSE IF m \in {4, 6, 9, 11} THEN 30 ELSE 31

\* days from 1970-01-01 to the proleptic Gregorian date y-m-d
DaysFromCivil(y, m, d) ==
    LET yy  == IF m <= 2 THEN y - 1 ELSE y
        era == yy \div 400
        yoe == yy - era * 400
        mp  == IF m > 2 THEN m - 3 ELSE m + 9
        doy == (153 * mp + 2) \div 5 + d - 1
        doe == yoe * 365 + yoe \div 4 - yoe \div 100 + doy
    IN  era * 146097 + doe - 719468

\* the date that lies z days after 1970-01-01
CivilFromDays(z) ==
    LET zz  == z + 719468
        era == zz \div 146097
        doe == zz - era * 146097
        yoe == (doe - doe \div 1460 + doe \div 36524 - doe \div 146096) \div 365
        doy == doe - (365 * yoe + yoe \div 4 - yoe \div 100)
        mp  == (5 * doy + 2) \div 153
        d   == doy - (153 * mp + 2) \div 5 + 1
        m   == IF mp < 10 THEN mp + 3 ELSE mp - 9
    IN  [year |-> yoe + era * 400 + (IF m <= 2 THEN 1 ELSE 0), month |-> m, day |-> d]

\* chrono's MIN_DATE and MAX_DATE, in days from the epoch
MinDateDays == DaysFromCivil(-262144, 1, 1)
MaxDateDays == DaysFromCivil(262143, 12, 31)

\* NaiveDate::from_ymd: panics on a date that does not exist
NaiveDate_from_ymd(y, m, d) ==
    IF /\ m \in 1..12
       /\ d \in 1..DaysInMonth(y, m)
       /\ y \in -262144..262143
    THEN [year |-> y, month |-> m, day |-> d]
    ELSE Panic

\* NaiveDate::signed_duration_since(..).num_days()
NumDaysSince(nd, base) ==
    DaysFromCivil(nd.year, nd.month, nd.day) - DaysFromCivil(base.year, base.month, base.day)

\* NaiveDateTime::from_timestamp(secs: i64, nsecs: u32): panics when the
\* date is out of range or nsecs >= 2_000_000_000
NaiveDateTime_from_timestamp(secs, nsecs) ==
    LET days == WDivFloor(secs, W(86400))
        sod  == WModFloor(secs, W(86400))
    IN  IF \/ WLess(days, W(MinDateDays))
           \/ WLess(W(MaxDateDays), days)
           \/ ~WLess(nsecs, W(2000000000))
        THEN Panic
        ELSE [date |-> CivilFromDays(ToInt(days)),
              time |-> [secs |-> ToInt(sod), frac |-> ToInt(nsecs)]]

\* NaiveDateTime::timestamp(): seconds since the epoch, as i64
Timestamp(dt) ==
    WAdd(WMul(W(DaysFromCivil(dt.date.year, dt.date.month, dt.date.day)), W(86400)),
         W(dt.time.secs))

\* timestamp_subsec_millis / _micros / _nanos
TimestampSubsecMillis(dt) == dt.time.frac \div 1000000
TimestampSubsecMicros(dt) == dt.time.frac \div 1000
TimestampSubsecNanos(dt) == dt.time.frac

\* NaiveDateTime::timestamp_millis / timestamp_nanos
TimestampMillis(dt) == WAdd(WMul(Timestamp(dt), W(1000)), W(TimestampSubsecMillis(dt)))
TimestampNanos(dt) == WAdd(WMul(Timestamp(dt), W(1000000000)), W(TimestampSubsecNanos(dt)))

\* Timelike for NaiveTime
Hour(v) == v.secs \div 3600
Minute(v) == (v.secs \div 60) % 60
Second(v) == v.secs % 60
Nanosecond(v) == v.frac

(***************************************************************************)
(* temporal.rs: the constants and the conversion functions                 *)
(***************************************************************************)
SECONDS_IN_DAY == 86400
MILLISECONDS_IN_SECOND == 1000
MICROSECONDS_IN_SECOND == 1000000
NANOSECONDS_IN_SECOND == 1000000000

date32_as_datetime(v) ==
    NaiveDateTime_from_timestamp(WMul(W(v), W(SECONDS_IN_DAY)), W(0))

date64_as_datetime(v) ==
    NaiveDateTime_from_timestamp(
        WDiv(v, W(MILLISECONDS_IN_SECOND)),
        AsU32(WMul(WRem(v, W(MILLISECONDS_IN_SECOND)), W(MICROSECONDS_IN_SECOND))))

timestamp_nanoseconds_as_datetime(v) ==
    LET seconds     == WDiv(v, W(1000000000))
        nanoseconds == AsU32(WSub(v, WMul(seconds, W(1000000000))))
    IN  NaiveDateTime_from_timestamp(seconds, nanoseconds)

timestamp_microseconds_as_datetime(v) ==
    LET seconds      == WDiv(v, W(1000000))
        microseconds == AsU32(WSub(v, WMul(seconds, W(1000000))))
    IN  NaiveDateTime_from_timestamp(seconds, microseconds)

timestamp_milliseconds_as_datetime(v) ==
    LET seconds      == WDiv(v, W(1000))
        milliseconds == AsU32(WSub(v, WMul(seconds, W(1000))))
    IN  NaiveDateTime_from_timestamp(seconds, milliseconds)

timestamp_seconds_as_datetime(seconds) ==
    NaiveDateTime_from_timestamp(seconds, W(0))

\* a Date64 that counted days, as Date32 does
naive_datetime_to_date64_days(v) == WDivFloor(Timestamp(v), W(SECONDS_IN_DAY))

naive_datetime_to_date64(v) == TimestampMillis(v)

naive_datetime_to_timestamp_nanoseconds(v) == TimestampNanos(v)

naive_datetime_to_timestamp_microseconds(v) ==
    WAdd(WMul(Timestamp(v), W(1000000)), W(TimestampSubsecMicros(v)))

naive_datetime_to_timestamp_milliseconds(v) == TimestampMillis(v)

naive_datetime_to_timestamp_seconds(v) == Timestamp(v)

\* the nanosecond encoding without the minutes
naive_time_to_time64_nanoseconds_no_minutes(v) ==
    WAdd(WAdd(WMul(WMul(W(Hour(v)), W(3600)), W(NANOSECONDS_IN_SECOND)),
              WMul(W(Second(v)), W(NANOSECONDS_IN_SECOND))),
         W(Nanosecond(v)))

naive_time_to_time64_nanoseconds(v) ==
    WAdd(WAdd(WAdd(WMul(WMul(W(Hour(v)), W(3600)), W(NANOSECONDS_IN_SECOND)),
                   WMul(WMul(W(Minute(v)), W(60)), W(NANOSECONDS_IN_SECOND))),
              WMul(W(Second(v)), W(NANOSECONDS_IN_SECOND))),
         W(Nanosecond(v)))

naive_time_to_time64_microseconds(v) ==
    WAdd(WAdd(WAdd(WMul(WMul(W(Hour(v)), W(3600)), W(MICROSECONDS_IN_SECOND)),
                   WMul(WMul(W(Minute(v)), W(60)), W(MICROSECONDS_IN_SECOND))),
              WMul(W(Second(v)), W(MICROSECONDS_IN_SECOND))),
         WDiv(W(Nanosecond(v)), W(1000)))

\* i32 arithmetic: every intermediate value is below 2^31
naive_time_to_time32_milliseconds(v) ==
    Hour(v) * 3600 * MILLISECONDS_IN_SECOND
        + Minute(v) * 60 * MILLISECONDS_IN_SECOND
        + Second(v) * MILLISECONDS_IN_SECOND
        + Nanosecond(v) \div 1000000

naive_time_to_time32_seconds(v) ==
    Hour(v) * 3600 + Minute(v) * 60 + Second(v) + Nanosecond(v)

unix_time_naive_date == NaiveDate_from_ymd(1970, 1, 1)

\* the day count taken from the date to the epoch
naive_date_to_date32_reversed(nd, unix_time) == NumDaysSince(unix_time, nd)

naive_date_to_date32(nd, unix_time) == NumDaysSince(nd, unix_time)


(***************************************************************************)
(* chrono's parse_from_str.  A text is a sequence of one-character         *)
(* strings; a format is its sequence of items (what StrftimeItems yields). *)
(***************************************************************************)
IsDigit(c) == c \in {"0", "1", "2", "3", "4", "5", "6", "7", "8", "9"}

DigitVal(c) ==
    CASE c = "0" -> 0 [] c = "1" -> 1 [] c = "2" -> 2 [] c = "3" -> 3
      [] c = "4" -> 4 [] c = "5" -> 5 [] c = "6" -> 6 [] c = "7" -> 7
      [] c = "8" -> 8 [] c = "9" -> 9

\* how many digits start at pos, at most max
RECURSIVE DigitRun(_, _, _)
DigitRun(s, pos, max) ==
    IF max = 0 \/ pos > Len(s) THEN 0
    ELSE IF ~IsDigit(s[pos]) THEN 0
    ELSE 1 + DigitRun(s, pos + 1, max - 1)

RECURSIVE DigitsValue(_, _, _)
DigitsValue(s, pos, n) ==
    IF n = 0 THEN 0 ELSE DigitsValue(s, pos, n - 1) * 10 + DigitVal(s[pos + n - 1])

RECURSIVE SkipSpace(_, _)
SkipSpace(s, pos) ==
    IF pos > Len(s) THEN pos
    ELSE IF s[pos] = " " THEN SkipSpace(s, pos + 1)
    ELSE pos

NumItem(f, w, sg) == [kind |-> "num", field |-> f, width |-> w, signed |-> sg]
LitItem(c) == [kind |-> "lit", ch |-> c]
SpaceItem == [kind |-> "space"]

\* "%H:%M:%S", "%Y-%m-%d" and "%Y-%m-%d %H:%M:%S"
FmtTime ==
    <<NumItem("hour", 2, FALSE), LitItem(":"), NumItem("minute", 2, FALSE),
      LitItem(":"), NumItem("second", 2, FALSE)>>
FmtDate ==
    <<NumItem("year", 4, TRUE), LitItem("-"), NumItem("month", 2, FALSE),
      LitItem("-"), NumItem("day", 2, FALSE)>>
FmtDateTime == FmtDate \o <<SpaceItem>> \o FmtTime

\* format::parse: the fields the text sets under the items, or None when
\* the text does not match (too short, invalid, too long)
RECURSIVE ParseItems(_, _, _, _, _)
ParseItems(items, i, s, pos, fields) ==
    IF i > Len(items)
    THEN (IF pos > Len(s) THEN Some(fields) ELSE None)
    ELSE LET it == items[i] IN
         IF it.kind = "lit"
         THEN (IF pos > Len(s) THEN None
               ELSE IF s[pos] # it.ch THEN None
               ELSE ParseItems(items, i + 1, s, pos + 1, fields))
         ELSE IF it.kind = "space"
         THEN ParseItems(items, i + 1, s, SkipSpace(s, pos), fields)
         ELSE LET p    == SkipSpace(s, pos)
                  sgn  == IF it.signed /\ p <= Len(s) THEN s[p] \in {"+", "-"} ELSE FALSE
                  from == IF sgn THEN p + 1 ELSE p
                  n    == DigitRun(s, from, IF sgn THEN Len(s) ELSE it.width)
                  v    == DigitsValue(s, from, n)
              IN  IF n = 0 THEN None
                  ELSE ParseItems(items, i + 1, s, from + n,
                                  (it.field :> (IF sgn /\ s[p] = "-" THEN 0 - v ELSE v))
                                      @@ fields)

\* Parsed::to_naive_time: second 60 is a leap second
ToNaiveTime(f) ==
    IF ~({"hour", "minute"} \subseteq DOMAIN f) THEN None
    ELSE IF f.hour > 23 \/ f.minute > 59 THEN None
    ELSE LET sec == IF "second" \in DOMAIN f THEN f.second ELSE 0 IN
         IF sec > 60 THEN None
         ELSE Some([secs |-> f.hour * 3600 + f.minute * 60 + (IF sec = 60 THEN 59 ELSE sec),
                    frac |-> IF sec = 60 THEN 1000000000 ELSE 0])

\* Parsed::to_naive_date
ToNaiveDate(f) ==
    IF ~({"year", "month", "day"} \subseteq DOMAIN f) THEN None
    ELSE IF IsPanic(NaiveDate_from_ymd(f.year, f.month, f.day)) THEN None
    ELSE Some(NaiveDate_from_ymd(f.year, f.month, f.day))

NaiveTime_parse_from_str(s, fmt) ==
    LET f == ParseItems(fmt, 1, s, 1, <<>>)
    IN  IF IsSome(f) THEN ToNaiveTime(f.some) ELSE None

NaiveDate_parse_from_str(s, fmt) ==
    LET f == ParseItems(fmt, 1, s, 1, <<>>)
    IN  IF IsSome(f) THEN ToNaiveDate(f.some) ELSE None

NaiveDateTime_parse_from_str(s, fmt) ==
    LET f == ParseItems(fmt, 1, s, 1, <<>>)
    IN  IF ~IsSome(f) THEN None
        ELSE IF ~IsSome(ToNaiveDate(f.some)) \/ ~IsSome(ToNaiveTime(f.some)) THEN None
        ELSE Some([date |-> ToNaiveDate(f.some).some, time |-> ToNaiveTime(f.some).some])

parse_naive_time_from_str(s, fmt) == NaiveTime_parse_from_str(s, fmt)
parse_naive_datetime_from_str(s, fmt) == NaiveDateTime_parse_from_str(s, fmt)
parse_naive_date_from_str(s, fmt) == NaiveDate_parse_from_str(s, fmt)

(***************************************************************************)
(* temporal.rs: the chunked arrays and the trait implementations.  A       *)
(* ChunkedArray is [data |-> sequence of Option<physical>].                *)
(***************************************************************************)
TimeEncs == {"Time64Nanosecond", "Time64Microsecond", "Time32Millisecond", "Time32Second"}
DatetimeEncs ==
    {"Date64", "TimestampNanosecond", "TimestampMicrosecond", "TimestampMillisecond",
     "TimestampSecond"}

NotYet == [notyet |-> TRUE]
IsArray(c) == "data" \in DOMAIN c

\* ChunkedArray::new_from_aligned_vec: no nulls
new_from_aligned_vec(unit) == [data |-> [i \in 1..Len(unit) |-> Some(unit[i])]]

\* ChunkedArray::new_from_opt_iter
new_from_opt_iter(opts) == [data |-> opts]

\* the $func of each impl_from_naive_time! instance
NaiveTimeFunc(enc, v) ==
    CASE enc = "Time64Nanosecond" -> naive_time_to_time64_nanoseconds(v)
      [] enc = "Time64Microsecond" -> naive_time_to_time64_microseconds(v)
      [] enc = "Time32Millisecond" -> naive_time_to_time32_milliseconds(v)
      [] enc = "Time32Second" -> naive_time_to_time32_seconds(v)

\* the $func of each impl_from_naive_datetime! instance
NaiveDatetimeFunc(enc, v) ==
    CASE enc = "Date64" -> naive_datetime_to_date64(v)
      [] enc = "TimestampNanosecond" -> naive_datetime_to_timestamp_nanoseconds(v)
      [] enc = "TimestampMicrosecond" -> naive_datetime_to_timestamp_microseconds(v)
      [] enc = "TimestampMillisecond" -> naive_datetime_to_timestamp_milliseconds(v)
      [] enc = "TimestampSecond" -> naive_datetime_to_timestamp_seconds(v)

\* the $fun of each impl_as_naive_datetime! instance
AsDatetimeFunc(enc, x) ==
    CASE enc = "Date32" -> date32_as_datetime(x)
      [] enc = "Date64" -> date64_as_datetime(x)
      [] enc = "TimestampNanosecond" -> timestamp_nanoseconds_as_datetime(x)
      [] enc = "TimestampMicrosecond" -> timestamp_microseconds_as_datetime(x)
      [] enc = "TimestampMillisecond" -> timestamp_milliseconds_as_datetime(x)
      [] enc = "TimestampSecond" -> timestamp_seconds_as_datetime(x)

new_from_naive_time(enc, v) ==
    new_from_aligned_vec([i \in 1..Len(v) |-> NaiveTimeFunc(enc, v[i])])

\* a batch in which a text that fails to parse is encoded as midnight
time_parse_from_str_slice_or_default(enc, v, fmt) ==
    new_from_opt_iter(
        [i \in 1..Len(v) |->
            LET o == parse_naive_time_from_str(v[i], fmt)
            IN  IF IsSome(o) THEN Some(NaiveTimeFunc(enc, o.some))
                ELSE Some(NaiveTimeFunc(enc, [secs |-> 0, frac |-> 0]))])

time_parse_from_str_slice(enc, v, fmt) ==
    new_from_opt_iter(
        [i \in 1..Len(v) |->
            LET o == parse_naive_time_from_str(v[i], fmt)
            IN  IF IsSome(o) THEN Some(NaiveTimeFunc(enc, o.some)) ELSE None])

new_from_naive_datetime(enc, v) ==
    new_from_aligned_vec([i \in 1..Len(v) |-> NaiveDatetimeFunc(enc, v[i])])

datetime_parse_from_str_slice(enc, v, fmt) ==
    new_from_opt_iter(
        [i \in 1..Len(v) |->
            LET o == parse_naive_datetime_from_str(v[i], fmt)
            IN  IF IsSome(o) THEN Some(NaiveDatetimeFunc(enc, o.some)) ELSE None])

new_from_naive_date(v) ==
    LET unix_date == unix_time_naive_date
    IN  new_from_aligned_vec([i \in 1..Len(v) |-> naive_date_to_date32(v[i], unix_date)])

date_parse_from_str_slice(v, fmt) ==
    LET unix_date == unix_time_naive_date
    IN  new_from_opt_iter(
            [i \in 1..Len(v) |->
                LET o == parse_naive_date_from_str(v[i], fmt)
                IN  IF IsSome(o) THEN Some(naive_date_to_date32(o.some, unix_date))
                    ELSE None])

\* as_naive_datetime: a panic in one element's conversion ends the call
as_naive_datetime(enc, ca) ==
    IF \E i \in 1..Len(ca.data) :
          IsSome(ca.data[i]) /\ IsPanic(AsDatetimeFunc(enc, ca.data[i].some))
    THEN Panic
    ELSE [vals |-> [i \in 1..Len(ca.data) |->
                      IF IsSome(ca.data[i])
                      THEN Some(AsDatetimeFunc(enc, ca.data[i].some))
                      ELSE None]]

\* AsNaiveDate for Date32Chunked
Date32AsDate(v) ==
    LET dt == date32_as_datetime(v)
    IN  IF IsPanic(dt) THEN Panic
        ELSE NaiveDate_from_ymd(dt.date.year, dt.date.month, dt.date.day)

as_naive_date(ca) ==
    IF \E i \in 1..Len(ca.data) : IsSome(ca.data[i]) /\ IsPanic(Date32AsDate(ca.data[i].some))
    THEN Panic
    ELSE [vals |-> [i \in 1..Len(ca.data) |->
                      IF IsSome(ca.data[i]) THEN Some(Date32AsDate(ca.data[i].some))
                      ELSE None]]

(***************************************************************************)
(* The inputs of the temporal calls                                        *)
(***************************************************************************)
\* the longest column or batch with more than one element
MaxLen == 2

SeqsUpTo(S, n) == UNION {[1..k -> S] : k \in 0..n}
Singletons(S) == {<<x>> : x \in S}

\* ticks per second of a date-time encoding
TicksPerSecond(enc) ==
    CASE enc = "Date64" -> 1000
      [] enc = "TimestampNanosecond" -> 1000000000
      [] enc = "TimestampMicrosecond" -> 1000000
      [] enc = "TimestampMillisecond" -> 1000
      [] enc = "TimestampSecond" -> 1

SecondsSample == {0, 1, 86399, 86400, 588470416}
SubSecondSample(enc) ==
    IF TicksPerSecond(enc) = 1 THEN {0}
    ELSE {0, 1, TicksPerSecond(enc) \div 2, TicksPerSecond(enc) - 1}

\* physical values s * unit + f and their negatives
PhysSample(enc) ==
    UNION {{WAdd(WMul(W(s), W(TicksPerSecond(enc))), W(f)),
            WNeg(WAdd(WMul(W(s), W(TicksPerSecond(enc))), W(f)))} :
           <<s, f>> \in SecondsSample \X SubSecondSample(enc)}
PhysFew(enc) ==
    {W(0), WMul(W(86400), W(TicksPerSecond(enc))), WNeg(W(TicksPerSecond(enc)))}

Time(h, m, sec, f) == [secs |-> h * 3600 + m * 60 + sec, frac |-> f]
TimeSample ==
    {[secs |-> sec, frac |-> f] :
        <<sec, f>> \in {0, 1, 59, 60, 3599, 3600, 86164, 86399}
                       \X {0, 1, 999, 1000, 999999, 1000000, 500000000, 999999999,
                           1000000000}}
TimeFew == {Time(23, 56, 4, 0), Time(0, 0, 0, 0), Time(0, 0, 1, 500000000)}

Date(y, m, d) == [year |-> y, month |-> m, day |-> d]
DateSample ==
    {Date(y, m, d) :
        <<y, m, d>> \in {<<y, m, d>> \in {1600, 1900, 1969, 1970, 1972, 2000, 2020, 2100}
                                          \X (1..12) \X {1, 2, 21, 28, 29, 30, 31} :
                            d <= DaysInMonth(y, m)}}
DateFew ==
    {Date(2020, 8, 21), Date(2020, 8, 22), Date(1969, 12, 31), Date(1970, 1, 1)}

DatetimeSample ==
    {[date |-> d, time |-> tm] :
        <<d, tm>> \in {Date(1988, 8, 25), Date(2015, 9, 5), Date(2012, 12, 21),
                       Date(1970, 1, 1), Date(1969, 12, 31), Date(1900, 3, 1)}
                      \X {Time(0, 0, 0, 0), Time(0, 0, 16, 0), Time(23, 56, 4, 0),
                          Time(23, 59, 59, 0), Time(0, 0, 16, 1500000)}}
DatetimeFew ==
    {[date |-> Date(1988, 8, 25), time |-> Time(0, 0, 16, 0)],
     [date |-> Date(1969, 12, 31), time |-> Time(23, 59, 59, 0)]}

TimeTexts ==
    {<<"2", "3", ":", "5", "6", ":", "0", "4">>,
     <<"0", "0", ":", "0", "0", ":", "0", "0">>,
     <<"2", "4", ":", "0", "0", ":", "0", "0">>,
     <<"1", "2", ":", "6", "0", ":", "0", "0">>,
     <<"2", "3", ":", "5", "9", ":", "6", "0">>,
     <<"n", "o", "o", "n">>,
     <<>>,
     <<"7", ":", "5", ":", "9">>}

DateTexts ==
    {<<"2", "0", "2", "0", "-", "0", "8", "-", "2", "1">>,
     <<"2", "0", "2", "0", "-", "0", "8", "-", "2", "2">>,
     <<"2", "0", "2", "0", "-", "0", "8", "-", "2", "3">>,
     <<"1", "9", "6", "9", "-", "1", "2", "-", "3", "1">>,
     <<"2", "0", "2", "1", "-", "0", "2", "-", "2", "9">>,
     <<"2", "0", "2", "0", "-", "1", "3", "-", "0", "1">>,
     <<"2", "0", "2", "0", "0", "8", "2", "1">>}

DatetimeTexts ==
    {<<"1", "9", "8", "8", "-", "0", "8", "-", "2", "5", " ", "0", "0", ":", "0", "0", ":", "1", "6">>,
     <<"2", "0", "1", "5", "-", "0", "9", "-", "0", "5", " ", "2", "3", ":", "5", "6", ":", "0", "4">>,
     <<"2", "0", "1", "2", "-", "1", "2", "-", "2", "1", " ", "0", "0", ":", "0", "0", ":", "0", "0">>,
     <<"1", "9", "8", "8", "-", "0", "8", "-", "2", "5">>,
     <<"1", "9", "8", "8", "-", "0", "8", "-", "2", "5", "T", "0", "0", ":", "0", "0", ":", "1", "6">>,
     <<"1", "9", "6", "9", "-", "1", "2", "-", "3", "1", " ", "2", "3", ":", "5", "9", ":", "6", "0">>}

TextsFew ==
    {<<"2", "3", ":", "5", "6", ":", "0", "4">>,
     <<"n", "o", "o", "n">>,
     <<"2", "0", "2", "0", "-", "0", "8", "-", "2", "1">>,
     <<"1", "9", "8", "8", "-", "0", "8", "-", "2", "5", " ", "0", "0", ":", "0", "0", ":",
       "1", "6">>}
Formats == {FmtTime, FmtDate, FmtDateTime}

Columns(few, all) == SeqsUpTo(few, MaxLen) \cup Singletons(all)

\* a column to decode, a slice of logical values to encode, or texts to parse
TemporalInputs ==
    {[kind |-> "phys", enc |-> e, data |-> d] :
        <<e, d>> \in UNION {{e} \X Columns(PhysFew(e), PhysSample(e)) : e \in DatetimeEncs}}
    \cup {[kind |-> "times", enc |-> e, data |-> d] :
        <<e, d>> \in TimeEncs \X Columns(TimeFew, TimeSample)}
    \cup {[kind |-> "datetimes", enc |-> e, data |-> d] :
        <<e, d>> \in DatetimeEncs \X Columns(DatetimeFew, DatetimeSample)}
    \cup {[kind |-> "dates", enc |-> "Date32", data |-> d] :
        d \in Columns(DateFew, DateSample)}
    \cup {[kind |-> "texts", enc |-> e, data |-> d, fmt |-> f] :
        <<e, d, f>> \in (TimeEncs \cup DatetimeEncs \cup {"Date32"})
                        \X Columns(TextsFew, TimeTexts \cup DateTexts \cup DatetimeTexts)
                        \X Formats}

(***************************************************************************)
(* State.  The three parts share no state; each has its own variables.     *)
(*                                                                         *)
(* temporal.rs                                                             *)
(*   input    : what the caller passes                                     *)
(*   column   : the ChunkedArray the last constructor built (or the one    *)
(*              passed in)                                                 *)
(*   values   : what the last as_naive_* call returned                     *)
(*   calls    : the names of the calls made so far                         *)
(* lazy/dataframe.rs                                                       *)
(*   frames   : frames[h] is the ldf field of the h-th PyLazyFrame object  *)
(*   groupbys : groupbys[g] is the lgb field of the g-th PyLazyGroupBy     *)
(*   consumed : the ids of the values moved out by take(), in order        *)
(*   executed : the ids of the values collect() has run                    *)
(*   nextId   : the next unused id                                         *)
(*   last     : the last call from Python and how it ended                 *)
(* file.rs                                                                 *)
(*   io       : the last call on the PyFileLikeObject: what the foreign    *)
(*              object answered and what the adapter returned              *)
(*   buffer   : the caller's buffer after the last read                    *)
(***************************************************************************)
VARIABLES input, column, values, calls,
          frames, groupbys, consumed, executed, nextId, last,
          io, buffer

tvars == <<input, column, values, calls>>
lvars == <<frames, groupbys, consumed, executed, nextId, last>>
fvars == <<io, buffer>>
vars == <<input, column, values, calls, frames, groupbys, consumed, executed, nextId, last,
          io, buffer>>

InitTemporal ==
    /\ input \in TemporalInputs
    /\ column = IF input.kind = "phys" THEN new_from_aligned_vec(input.data) ELSE NotYet
    /\ values = NotYet
    /\ calls = <<>>

steps == Len(calls)

\* the Vec<Option<N>> of an as_naive_* call without nulls, unwrapped
Unwrapped(v) == [i \in 1..Len(v.vals) |-> v.vals[i].some]
AllSome(v) == "vals" \in DOMAIN v /\ \A i \in 1..Len(v.vals) : IsSome(v.vals[i])

NewFromNaiveTime ==
    /\ input.kind = "times" /\ steps = 0
    /\ column' = new_from_naive_time(input.enc, input.data)
    /\ calls' = Append(calls, "new_from_naive_time")
    /\ UNCHANGED <<input, values, lvars, fvars>>

NewFromNaiveDatetime ==
    /\ \/ /\ input.kind = "datetimes" /\ steps = 0
          /\ column' = new_from_naive_datetime(input.enc, input.data)
       \/ /\ input.kind = "phys" /\ steps = 1 /\ AllSome(values)
          /\ column' = new_from_naive_datetime(input.enc, Unwrapped(values))
    /\ calls' = Append(calls, "new_from_naive_datetime")
    /\ UNCHANGED <<input, values, lvars, fvars>>

NewFromNaiveDate ==
    /\ input.kind = "dates" /\ steps = 0
    /\ column' = new_from_naive_date(input.data)
    /\ calls' = Append(calls, "new_from_naive_date")
    /\ UNCHANGED <<input, values, lvars, fvars>>

TimeParseFromStrSlice ==
    /\ input.kind = "texts" /\ input.enc \in TimeEncs /\ steps = 0
    /\ column' = time_parse_from_str_slice(input.enc, input.data, input.fmt)
    /\ calls' = Append(calls, "parse_from_str_slice")
    /\ UNCHANGED <<input, values, lvars, fvars>>

DatetimeParseFromStrSlice ==
    /\ input.kind = "texts" /\ input.enc \in DatetimeEncs /\ steps = 0
    /\ column' = datetime_parse_from_str_slice(input.enc, input.data, input.fmt)
    /\ calls' = Append(calls, "parse_from_str_slice")
    /\ UNCHANGED <<input, values, lvars, fvars>>

DateParseFromStrSlice ==
    /\ input.kind = "texts" /\ input.enc = "Date32" /\ steps = 0
    /\ column' = date_parse_from_str_slice(input.data, input.fmt)
    /\ calls' = Append(calls, "parse_from_str_slice")
    /\ UNCHANGED <<input, values, lvars, fvars>>

AsNaiveDatetime ==
    /\ IsArray(column) /\ values = NotYet
    /\ input.enc \in DatetimeEncs \cup {"Date32"}
    /\ values' = as_naive_datetime(input.enc, column)
    /\ calls' = Append(calls, "as_naive_datetime")
    /\ UNCHANGED <<input, column, lvars, fvars>>

AsNaiveDate ==
    /\ IsArray(column) /\ values = NotYet
    /\ input.enc = "Date32"
    /\ values' = as_naive_date(column)
    /\ calls' = Append(calls, "as_naive_date")
    /\ UNCHANGED <<input, column, lvars, fvars>>

NextTemporal ==
    \/ NewFromNaiveTime
    \/ NewFromNaiveDatetime
    \/ NewFromNaiveDate
    \/ TimeParseFromStrSlice
    \/ DatetimeParseFromStrSlice
    \/ DateParseFromStrSlice
    \/ AsNaiveDatetime
    \/ AsNaiveDate

(***************************************************************************)
(* lazy/dataframe.rs.  A LazyFrame value is [id, plan]: id names the Rust  *)
(* value (a clone is another value with the same plan), plan is the        *)
(* logical plan.  The binding hands the plan and the expressions to        *)
(* polars::lazy::frame and wraps what comes back: which node the core puts *)
(* around the plan is not decided here, so a plan records its input plans  *)
(* only, and the method that made it is in `last`.                         *)
(***************************************************************************)
\* the most PyLazyFrame and PyLazyGroupBy objects alive together
MaxHandles == 3

\* #[pymethods] impl PyLazyFrame / impl PyLazyGroupBy
LazyFrameMethods ==
    {"describe_plan", "describe_optimized_plan", "optimization_toggle", "sort", "collect",
     "filter", "select", "groupby", "inner_join", "outer_join", "left_join", "with_column",
     "with_columns", "clone"}
LazyGroupByMethods == {"agg"}

Node(inputs) == [inputs |-> inputs]
LazyFrame(id, plan) == [id |-> id, plan |-> plan]

NoCall ==
    [method |-> "none", on |-> "none", self |-> 0, wasEmpty |-> FALSE, result |-> "none",
     ret |-> 0, taken |-> None]
Call(m, on, self, wasEmpty, result, ret, taken) ==
    [method |-> m, on |-> on, self |-> self, wasEmpty |-> wasEmpty, result |-> result,
     ret |-> ret, taken |-> taken]

InitLazy ==
    /\ frames = <<Some(LazyFrame(1, Node(<<>>)))>>
    /\ groupbys = <<>>
    /\ consumed = <<>>
    /\ executed = {}
    /\ nextId = 2
    /\ last = NoCall

Room == Len(frames) + Len(groupbys) < MaxHandles

\* Option::as_ref in place of take: the field keeps its value
AsRefLdf(fs, h) == fs

\* Option::take on the ldf field of frame h: the field is None afterwards
TakeLdf(fs, h) == [fs EXCEPT ![h] = None]

\* Option::as_ref in place of take on the lgb field
AsRefLgb(gs, g) == gs

\* Option::take on the lgb field of group handle g
TakeLgb(gs, g) == [gs EXCEPT ![g] = None]

\* self.ldf.take().unwrap() on an empty handle: the call panics, nothing changes
PanicOnEmpty(h, m) ==
    /\ frames[h] = None
    /\ last' = Call(m, "frame", h, TRUE, "panic", 0, None)
    /\ UNCHANGED <<frames, groupbys, consumed, executed, nextId>>

\* let ldf = self.ldf.take().unwrap(); ldf.<op>(..).into()
Builder(h, m) ==
    \/ PanicOnEmpty(h, m)
    \/ /\ IsSome(frames[h]) /\ Room
       /\ frames' = Append(TakeLdf(frames, h),
                           Some(LazyFrame(nextId, Node(<<frames[h].some.plan>>))))
       /\ consumed' = Append(consumed, frames[h].some.id)
       /\ nextId' = nextId + 1
       /\ last' = Call(m, "frame", h, FALSE, "ok", Len(frames) + 1, Some(frames[h].some.plan))
       /\ UNCHANGED <<groupbys, executed>>

OptimizationToggle ==
    /\ \E h \in DOMAIN frames : Builder(h, "optimization_toggle")
    /\ UNCHANGED <<tvars, fvars>>
Sort ==
    /\ \E h \in DOMAIN frames : Builder(h, "sort")
    /\ UNCHANGED <<tvars, fvars>>
Filter ==
    /\ \E h \in DOMAIN frames : Builder(h, "filter")
    /\ UNCHANGED <<tvars, fvars>>
Select ==
    /\ \E h \in DOMAIN frames : Builder(h, "select")
    /\ UNCHANGED <<tvars, fvars>>
WithColumn ==
    /\ \E h \in DOMAIN frames : Builder(h, "with_column")
    /\ UNCHANGED <<tvars, fvars>>
WithColumns ==
    /\ \E h \in DOMAIN frames : Builder(h, "with_columns")
    /\ UNCHANGED <<tvars, fvars>>

\* a collect that kept the plan in the handle when the run failed
CollectKeepingOnError ==
    /\ \E h \in DOMAIN frames :
           \/ PanicOnEmpty(h, "collect")
           \/ /\ IsSome(frames[h])
              /\ executed' = executed \cup {frames[h].some.id}
              /\ \E res \in {"ok", "err"} :
                    /\ frames' = IF res = "ok" THEN TakeLdf(frames, h) ELSE frames
                    /\ consumed' = IF res = "ok" THEN Append(consumed, frames[h].some.id)
                                   ELSE consumed
                    /\ last' = Call("collect", "frame", h, FALSE, res, 0,
                                    Some(frames[h].some.plan))
              /\ UNCHANGED <<groupbys, nextId>>
    /\ UNCHANGED <<tvars, fvars>>

\* collect: the plan is taken, then run; the run ends in a DataFrame or an error
Collect ==
    /\ \E h \in DOMAIN frames :
           \/ PanicOnEmpty(h, "collect")
           \/ /\ IsSome(frames[h])
              /\ frames' = TakeLdf(frames, h)
              /\ consumed' = Append(consumed, frames[h].some.id)
              /\ executed' = executed \cup {frames[h].some.id}
              /\ \E res \in {"ok", "err"} :
                    last' = Call("collect", "frame", h, FALSE, res, 0, Some(frames[h].some.plan))
              /\ UNCHANGED <<groupbys, nextId>>
    /\ UNCHANGED <<tvars, fvars>>

GroupBy ==
    /\ \E h \in DOMAIN frames :
           \/ PanicOnEmpty(h, "groupby")
           \/ /\ IsSome(frames[h]) /\ Room
              /\ frames' = TakeLdf(frames, h)
              /\ groupbys' = Append(groupbys,
                                    Some(LazyFrame(nextId, Node(<<frames[h].some.plan>>))))
              /\ consumed' = Append(consumed, frames[h].some.id)
              /\ nextId' = nextId + 1
              /\ last' = Call("groupby", "frame", h, FALSE, "ok", Len(groupbys) + 1,
                              Some(frames[h].some.plan))
              /\ UNCHANGED executed
    /\ UNCHANGED <<tvars, fvars>>

\* PyLazyGroupBy::agg
Agg ==
    /\ \E g \in DOMAIN groupbys :
           \/ /\ groupbys[g] = None
              /\ last' = Call("agg", "groupby", g, TRUE, "panic", 0, None)
              /\ UNCHANGED <<frames, groupbys, consumed, executed, nextId>>
           \/ /\ IsSome(groupbys[g]) /\ Room
              /\ groupbys' = TakeLgb(groupbys, g)
              /\ frames' = Append(frames,
                                  Some(LazyFrame(nextId, Node(<<groupbys[g].some.plan>>))))
              /\ consumed' = Append(consumed, groupbys[g].some.id)
              /\ nextId' = nextId + 1
              /\ last' = Call("agg", "groupby", g, FALSE, "ok", Len(frames) + 1,
                              Some(groupbys[g].some.plan))
              /\ UNCHANGED executed
    /\ UNCHANGED <<tvars, fvars>>

\* a join that looked at `other` before it took the receiver's plan
JoinCheckingOtherFirst(m) ==
    \E h, o \in DOMAIN frames :
        \/ /\ o = h
           /\ last' = Call(m, "frame", h, frames[h] = None, "rejected", 0, None)
           /\ UNCHANGED <<frames, groupbys, consumed, executed, nextId>>
        \/ /\ o # h
           /\ PanicOnEmpty(h, m)
        \/ /\ o # h /\ IsSome(frames[h]) /\ frames[o] = None
           /\ last' = Call(m, "frame", h, FALSE, "panic", 0, Some(frames[h].some.plan))
           /\ UNCHANGED <<frames, groupbys, consumed, executed, nextId>>
        \/ /\ o # h /\ IsSome(frames[h]) /\ IsSome(frames[o]) /\ Room
           /\ frames' = Append(TakeLdf(frames, h),
                               Some(LazyFrame(nextId + 1,
                                              Node(<<frames[h].some.plan,
                                                     frames[o].some.plan>>))))
           /\ consumed' = consumed \o <<frames[h].some.id, nextId>>
           /\ nextId' = nextId + 2
           /\ last' = Call(m, "frame", h, FALSE, "ok", Len(frames) + 1,
                           Some(frames[h].some.plan))
           /\ UNCHANGED <<groupbys, executed>>

\* inner_join / outer_join / left_join(&mut self, mut other: PyLazyFrame, ..).
\* `other` is passed by value: pyo3 extracts it as a clone of the Python
\* object's contents, so the take() on it empties the clone and not the
\* object.  With other the receiver itself the extraction fails (the
\* receiver is mutably borrowed) before the method body runs.
Join(m) ==
    \E h, o \in DOMAIN frames :
        \/ /\ o = h
           /\ last' = Call(m, "frame", h, frames[h] = None, "rejected", 0, None)
           /\ UNCHANGED <<frames, groupbys, consumed, executed, nextId>>
        \/ /\ o # h
           /\ PanicOnEmpty(h, m)
        \/ /\ o # h /\ IsSome(frames[h]) /\ frames[o] = None
           /\ frames' = TakeLdf(frames, h)
           /\ consumed' = Append(consumed, frames[h].some.id)
           /\ last' = Call(m, "frame", h, FALSE, "panic", 0, Some(frames[h].some.plan))
           /\ UNCHANGED <<groupbys, executed, nextId>>
        \/ /\ o # h /\ IsSome(frames[h]) /\ IsSome(frames[o]) /\ Room
           /\ frames' = Append(TakeLdf(frames, h),
                               Some(LazyFrame(nextId + 1,
                                              Node(<<frames[h].some.plan,
                                                     frames[o].some.plan>>))))
           /\ consumed' = consumed \o <<frames[h].some.id, nextId>>
           /\ nextId' = nextId + 2
           /\ last' = Call(m, "frame", h, FALSE, "ok", Len(frames) + 1,
                           Some(frames[h].some.plan))
           /\ UNCHANGED <<groupbys, executed>>

InnerJoin == Join("inner_join") /\ UNCHANGED <<tvars, fvars>>
OuterJoin == Join("outer_join") /\ UNCHANGED <<tvars, fvars>>
LeftJoin == Join("left_join") /\ UNCHANGED <<tvars, fvars>>

\* self.ldf.as_ref().unwrap().describe_plan()
DescribePlan ==
    /\ \E h \in DOMAIN frames :
           \/ PanicOnEmpty(h, "describe_plan")
           \/ /\ IsSome(frames[h])
              /\ last' = Call("describe_plan", "frame", h, FALSE, "ok", 0, None)
              /\ UNCHANGED <<frames, groupbys, consumed, executed, nextId>>
    /\ UNCHANGED <<tvars, fvars>>

\* the optimizer may fail: Ok(text) or Err
DescribeOptimizedPlan ==
    /\ \E h \in DOMAIN frames :
           \/ PanicOnEmpty(h, "describe_optimized_plan")
           \/ /\ IsSome(frames[h])
              /\ \E res \in {"ok", "err"} :
                    last' = Call("describe_optimized_plan", "frame", h, FALSE, res, 0, None)
              /\ UNCHANGED <<frames, groupbys, consumed, executed, nextId>>
    /\ UNCHANGED <<tvars, fvars>>

\* a clone that moved the plan out of the handle it is called on
CloneTaking ==
    /\ \E h \in DOMAIN frames :
           \/ PanicOnEmpty(h, "clone")
           \/ /\ IsSome(frames[h]) /\ Room
              /\ frames' = Append(TakeLdf(frames, h), Some(LazyFrame(nextId, frames[h].some.plan)))
              /\ nextId' = nextId + 1
              /\ last' = Call("clone", "frame", h, FALSE, "ok", Len(frames) + 1, None)
              /\ UNCHANGED <<groupbys, consumed, executed>>
    /\ UNCHANGED <<tvars, fvars>>

\* self.ldf.as_ref().unwrap().clone().into()
Clone ==
    /\ \E h \in DOMAIN frames :
           \/ PanicOnEmpty(h, "clone")
           \/ /\ IsSome(frames[h]) /\ Room
              /\ frames' = Append(frames, Some(LazyFrame(nextId, frames[h].some.plan)))
              /\ nextId' = nextId + 1
              /\ last' = Call("clone", "frame", h, FALSE, "ok", Len(frames) + 1, None)
              /\ UNCHANGED <<groupbys, consumed, executed>>
    /\ UNCHANGED <<tvars, fvars>>

\* a method the object's class does not define: Python raises AttributeError
NoSuchMethod ==
    /\ \/ \E g \in DOMAIN groupbys : \E m \in LazyFrameMethods \ LazyGroupByMethods :
             /\ last' = Call(m, "groupby", g, groupbys[g] = None, "attribute_error", 0, None)
             /\ UNCHANGED <<frames, groupbys, consumed, executed, nextId>>
       \/ \E h \in DOMAIN frames : \E m \in LazyGroupByMethods \ LazyFrameMethods :
             /\ last' = Call(m, "frame", h, frames[h] = None, "attribute_error", 0, None)
             /\ UNCHANGED <<frames, groupbys, consumed, executed, nextId>>
    /\ UNCHANGED <<tvars, fvars>>

NextLazy ==
    \/ OptimizationToggle
    \/ Sort
    \/ Collect
    \/ Filter
    \/ Select
    \/ GroupBy
    \/ Agg
    \/ InnerJoin
    \/ OuterJoin
    \/ LeftJoin
    \/ WithColumn
    \/ WithColumns
    \/ DescribePlan
    \/ DescribeOptimizedPlan
    \/ Clone
    \/ NoSuchMethod

(***************************************************************************)
(* file.rs.  The foreign object is outside the program: each call on it    *)
(* either raises an exception or returns some Python object.  An exception *)
(* is [str, text]: str tells what calling its __str__ does ("text": it     *)
(* returns the string text; "nonstring": it returns something that is no   *)
(* string; "raises": the call fails).  A returned object is [kind, ..].    *)
(***************************************************************************)
\* the longest caller buffer and the longest byte string the foreign read returns
MaxBuf == 2
MaxBytes == 3

Bytes == {7, 9}
ByteStrings == SeqsUpTo(Bytes, MaxBytes)

ErrorTexts == {"disk full", "I/O operation on closed file"}
Exceptions ==
    {[str |-> "text", text |-> x] : x \in ErrorTexts}
    \cup {[str |-> "nonstring", text |-> ""], [str |-> "raises", text |-> ""]}

PyInt(n) == [kind |-> "int", int |-> n]
PyBytes(b) == [kind |-> "bytes", bytes |-> b]
PyNone == [kind |-> "none"]
PyStr(x) == [kind |-> "str", str |-> x]

Raised(e) == [raised |-> e]
Returned(o) == [returned |-> o]
IsRaised(r) == "raised" \in DOMAIN r

IoOk(v) == [ok |-> v]
IoErr(msg) == [err |-> msg]
IsIoErr(r) == "err" \in DOMAIN r
IsIoOk(r) == "ok" \in DOMAIN r

\* pyerr_to_io_err
pyerr_to_io_err(e) ==
    IF e.str = "raises" THEN IoErr("Err doesn't have __str__")
    ELSE IF e.str = "nonstring" THEN IoErr("An unknown error has occurred")
    ELSE IoErr(e.text)

\* PyAny::extract::<usize> / ::<u64>: Ok(n), or the exception pyo3 raises
ExtractUnsigned(o) ==
    IF o.kind # "int"
    THEN Raised([str |-> "text", text |-> "object cannot be interpreted as an integer"])
    ELSE IF o.int < 0
    THEN Raised([str |-> "text", text |-> "can't convert negative int to unsigned"])
    ELSE Returned(o.int)

\* <&mut [u8] as Write>::write: copies what fits and never fails
SliceWrite(buf, data) ==
    [i \in 1..Len(buf) |-> IF i <= Len(data) THEN data[i] ELSE buf[i]]

NoIo == [op |-> "none", arg |-> 0, answer |-> Returned(PyNone), result |-> IoOk(0)]
IoCall(op, arg, answer, result) ==
    [op |-> op, arg |-> arg, answer |-> answer, result |-> result]

InitFile ==
    /\ io = NoIo
    /\ buffer = <<>>

\* what the foreign object may answer to read / write / flush / seek
ReadAnswers ==
    {Raised(e) : e \in Exceptions} \cup {Returned(PyBytes(b)) : b \in ByteStrings}
    \cup {Returned(PyStr("text"))}
CountAnswers ==
    {Raised(e) : e \in Exceptions} \cup {Returned(PyInt(n)) : n \in -1..MaxBytes}
    \cup {Returned(PyNone), Returned(PyStr("3"))}
FlushAnswers == {Raised(e) : e \in Exceptions} \cup {Returned(PyNone)}

\* Read::read(&mut self, buf)
read(buf, answer) ==
    IF IsRaised(answer) THEN [result |-> pyerr_to_io_err(answer.raised), buf |-> buf]
    ELSE IF answer.returned.kind # "bytes" THEN [result |-> Panic, buf |-> buf]
    ELSE [result |-> IoOk(Len(answer.returned.bytes)),
          buf |-> SliceWrite(buf, answer.returned.bytes)]

\* Write::write(&mut self, buf)
write(buf, answer) ==
    IF IsRaised(answer) THEN pyerr_to_io_err(answer.raised)
    ELSE IF IsRaised(ExtractUnsigned(answer.returned))
    THEN pyerr_to_io_err(ExtractUnsigned(answer.returned).raised)
    ELSE IoOk(ExtractUnsigned(answer.returned).returned)

\* a flush that dropped the foreign object's exception
flush_ignoring(answer) == IoOk(0)

\* Write::flush(&mut self)
flush(answer) ==
    IF IsRaised(answer) THEN pyerr_to_io_err(answer.raised) ELSE IoOk(0)

\* Seek::seek(&mut self, pos): the (offset, whence) passed to the foreign seek
SeekArgs(pos) ==
    CASE pos.from = "Start" -> <<pos.i, 0>>
      [] pos.from = "Current" -> <<pos.i, 1>>
      [] pos.from = "End" -> <<pos.i, 2>>

seek(pos, answer) ==
    IF IsRaised(answer) THEN pyerr_to_io_err(answer.raised)
    ELSE IF IsRaised(ExtractUnsigned(answer.returned))
    THEN pyerr_to_io_err(ExtractUnsigned(answer.returned).raised)
    ELSE IoOk(ExtractUnsigned(answer.returned).returned)

Read ==
    /\ \E n \in 0..MaxBuf : \E answer \in ReadAnswers :
          LET buf == [i \in 1..n |-> 0]
          IN  /\ io' = IoCall("read", n, answer, read(buf, answer).result)
              /\ buffer' = read(buf, answer).buf
    /\ UNCHANGED <<tvars, lvars>>

Write ==
    /\ \E data \in SeqsUpTo(Bytes, MaxBuf) : \E answer \in CountAnswers :
          io' = IoCall("write", data, answer, write(data, answer))
    /\ UNCHANGED <<buffer, tvars, lvars>>

Flush ==
    /\ \E answer \in FlushAnswers : io' = IoCall("flush", 0, answer, flush(answer))
    /\ UNCHANGED <<buffer, tvars, lvars>>

Seek ==
    /\ \E from \in {"Start", "Current", "End"} : \E i \in 0..1 : \E answer \in CountAnswers :
          io' = IoCall("seek", SeekArgs([from |-> from, i |-> i]), answer,
                       seek([from |-> from, i |-> i], answer))
    /\ UNCHANGED <<buffer, tvars, lvars>>

NextFile ==
    \/ Read
    \/ Write
    \/ Flush
    \/ Seek

(***************************************************************************)
(* The specifications: one per part, the other parts idle.                 *)
(***************************************************************************)
NoInput == [kind |-> "none", enc |-> "none", data |-> <<>>]
IdleTemporal == input = NoInput /\ column = NotYet /\ values = NotYet /\ calls = <<>>

TemporalStart == InitTemporal /\ InitLazy /\ InitFile
LazyStart == IdleTemporal /\ InitLazy /\ InitFile
FileStart == IdleTemporal /\ InitLazy /\ InitFile

SpecTemporal == TemporalStart /\ [][NextTemporal]_vars
SpecLazy == LazyStart /\ [][NextLazy]_vars
SpecFile == FileStart /\ [][NextFile]_vars

(***************************************************************************)
(* What the claims compare the code's results with                         *)
(***************************************************************************)
\* S = 3600*hour + 60*minute + second of a time of day
SecondsOfDay(v) == 3600 * Hour(v) + 60 * Minute(v) + Second(v)

\* leap years among the years 1..y-1
LeapsBefore(y) == (y - 1) \div 4 - (y - 1) \div 100 + (y - 1) \div 400

RECURSIVE DaysBeforeMonth(_, _)
DaysBeforeMonth(y, m) ==
    IF m = 1 THEN 0 ELSE DaysBeforeMonth(y, m - 1) + DaysInMonth(y, m - 1)

\* the signed number of days from 1970-01-01 to d, counted year by year
\* and month by month
DaysSinceEpoch(d) ==
    365 * (d.year - 1970) + LeapsBefore(d.year) - LeapsBefore(1970)
        + DaysBeforeMonth(d.year, d.month) + d.day - 1

NextDay(d) ==
    IF d.day < DaysInMonth(d.year, d.month) THEN Date(d.year, d.month, d.day + 1)
    ELSE IF d.month < 12 THEN Date(d.year, d.month + 1, 1)
    ELSE Date(d.year + 1, 1, 1)

\* E = seconds from 1970-01-01T00:00:00 to a datetime
SecondsSinceEpoch(dt) == WAdd(WMul(W(DaysSinceEpoch(dt.date)), W(86400)), W(dt.time.secs))

\* 86164000000000 and 588470416000
Lit_86164000000000 == Wide(FALSE, <<0, 0, 0, 164, 86>>)
Lit_588470416000 == Wide(FALSE, <<0, 416, 470, 588>>)

(***************************************************************************)
(* C1: for every date-time encoding and every physical x, negative or with *)
(* a sub-second part included, x converted by *_as_datetime and back by    *)
(* naive_datetime_to_* is x again: the decoding does not panic and the     *)
(* rebuilt column equals the original one.                                 *)
(***************************************************************************)
C1_RoundTrip ==
    input.kind = "phys" =>
        /\ steps >= 1 => ~IsPanic(values)
        /\ steps = 2 => column = new_from_aligned_vec(input.data)

(***************************************************************************)
(* C2: a time of day with nanosecond part n is encoded by truncation: the  *)
(* microsecond value is S*1_000_000 + n div 1000, the millisecond value is *)
(* S*1000 + n div 1_000_000, the second value is exactly S.                *)
(***************************************************************************)
TruncatedEncoding(enc, v) ==
    CASE enc = "Time64Microsecond" ->
            WAdd(WMul(W(SecondsOfDay(v)), W(1000000)), W(Nanosecond(v) \div 1000))
      [] enc = "Time32Millisecond" -> SecondsOfDay(v) * 1000 + Nanosecond(v) \div 1000000
      [] enc = "Time32Second" -> SecondsOfDay(v)

C2_Truncation ==
    (/\ input.kind = "times" /\ steps = 1
     /\ input.enc \in {"Time64Microsecond", "Time32Millisecond", "Time32Second"}) =>
        \A i \in 1..Len(input.data) :
            column.data[i] = Some(TruncatedEncoding(input.enc, input.data[i]))

(***************************************************************************)
(* C3: every parse_from_str_slice variant yields one entry per text, in    *)
(* order; the entry is null exactly when the text does not parse under the *)
(* format and is the encoding of the parsed value otherwise, whatever the  *)
(* other texts of the batch are.                                           *)
(***************************************************************************)
Parses(enc, s, fmt) ==
    IF enc \in TimeEncs THEN IsSome(NaiveTime_parse_from_str(s, fmt))
    ELSE IF enc \in DatetimeEncs THEN IsSome(NaiveDateTime_parse_from_str(s, fmt))
    ELSE IsSome(NaiveDate_parse_from_str(s, fmt))

EncodingOfParsed(enc, s, fmt) ==
    IF enc \in TimeEncs THEN NaiveTimeFunc(enc, NaiveTime_parse_from_str(s, fmt).some)
    ELSE IF enc \in DatetimeEncs
    THEN NaiveDatetimeFunc(enc, NaiveDateTime_parse_from_str(s, fmt).some)
    ELSE naive_date_to_date32(NaiveDate_parse_from_str(s, fmt).some, Date(1970, 1, 1))

C3_ParsePerElement ==
    (input.kind = "texts" /\ steps >= 1) =>
        /\ IsArray(column)
        /\ Len(column.data) = Len(input.data)
        /\ \A i \in 1..Len(input.data) :
            /\ (column.data[i] = None) <=> ~Parses(input.enc, input.data[i], input.fmt)
            /\ Parses(input.enc, input.data[i], input.fmt) =>
                   column.data[i] = Some(EncodingOfParsed(input.enc, input.data[i], input.fmt))

\* a batch whose first text fails and whose second text parses
C3_Witness ==
    /\ input.kind = "texts" /\ steps = 1
    /\ Len(input.data) = 2
    /\ ~Parses(input.enc, input.data[1], input.fmt)
    /\ column.data[1] = None
    /\ IsSome(column.data[2])

(***************************************************************************)
(* C5: a time of day with whole seconds is encoded as S, 1000*S,           *)
(* 1_000_000*S and 1_000_000_000*S; 23:56:04 is 86164000000000 ns and      *)
(* 00:00:00 is 0; one entry per input, in order, none null.                *)
(***************************************************************************)
WholeSecondsEncoding(enc, S) ==
    CASE enc = "Time32Second" -> S
      [] enc = "Time32Millisecond" -> 1000 * S
      [] enc = "Time64Microsecond" -> WMul(W(1000000), W(S))
      [] enc = "Time64Nanosecond" -> WMul(W(1000000000), W(S))

C5_WholeSecondTimes ==
    (input.kind = "times" /\ steps = 1) =>
        /\ Len(column.data) = Len(input.data)
        /\ \A i \in 1..Len(input.data) :
            /\ IsSome(column.data[i])
            /\ input.data[i].frac = 0 =>
                   column.data[i].some
                       = WholeSecondsEncoding(input.enc, SecondsOfDay(input.data[i]))
            /\ (input.enc = "Time64Nanosecond" /\ input.data[i] = Time(23, 56, 4, 0)) =>
                   column.data[i].some = Lit_86164000000000
            /\ (input.enc = "Time64Nanosecond" /\ input.data[i] = Time(0, 0, 0, 0)) =>
                   column.data[i].some = W(0)

C5_Witness ==
    /\ input.kind = "times" /\ steps = 1 /\ input.enc = "Time64Nanosecond"
    /\ input.data = <<Time(23, 56, 4, 0), Time(0, 0, 0, 0)>>
    /\ column.data = <<Some(Lit_86164000000000), Some(W(0))>>

(***************************************************************************)
(* C6: a datetime with whole seconds, E seconds after the epoch, is        *)
(* encoded as E, 1000*E, 1_000_000*E and 1_000_000_000*E by the timestamp  *)
(* encodings and as 1000*E by Date64, which equals the millisecond         *)
(* timestamp; 1988-08-25 00:00:16 is 588470416000 ms.                      *)
(***************************************************************************)
C6_WholeSecondDatetimes ==
    (input.kind = "datetimes" /\ steps >= 1) =>
        /\ Len(column.data) = Len(input.data)
        /\ \A i \in 1..Len(input.data) :
            /\ input.data[i].time.frac = 0 =>
                   column.data[i]
                       = Some(WMul(W(TicksPerSecond(input.enc)),
                                   SecondsSinceEpoch(input.data[i])))
            /\ (/\ input.enc \in {"Date64", "TimestampMillisecond"}
                /\ input.data[i] = [date |-> Date(1988, 8, 25), time |-> Time(0, 0, 16, 0)])
                   => column.data[i] = Some(Lit_588470416000)
        /\ input.enc = "Date64" =>
               column = new_from_naive_datetime("TimestampMillisecond", input.data)

C6_Witness ==
    /\ input.kind = "datetimes" /\ steps = 1 /\ input.enc = "Date64"
    /\ Len(input.data) = 1
    /\ input.data[1] = [date |-> Date(1988, 8, 25), time |-> Time(0, 0, 16, 0)]
    /\ column.data[1] = Some(Lit_588470416000)

(***************************************************************************)
(* C7: the Date32 value of a date is its signed number of days since       *)
(* 1970-01-01: equal dates give equal values, the next day gives the value *)
(* plus 1, 2020-08-21 gives 18495; and as_naive_date of the encoded column *)
(* returns the dates it was built from, before and after the epoch.        *)
(***************************************************************************)
C7_Date32 ==
    input.kind = "dates" =>
        /\ steps >= 1 =>
            /\ Len(column.data) = Len(input.data)
            /\ \A i \in 1..Len(input.data) :
                /\ column.data[i] = Some(DaysSinceEpoch(input.data[i]))
                /\ input.data[i] = Date(2020, 8, 21) => column.data[i] = Some(18495)
            /\ \A i, j \in 1..Len(input.data) :
                /\ input.data[i] = input.data[j] => column.data[i] = column.data[j]
                /\ input.data[j] = NextDay(input.data[i]) =>
                       column.data[j].some = column.data[i].some + 1
        /\ calls = <<"new_from_naive_date", "as_naive_date">> =>
            values = [vals |-> [i \in 1..Len(input.data) |-> Some(input.data[i])]]

\* a date before the epoch and its next day, encoded and decoded
C7_Witness ==
    /\ input.kind = "dates"
    /\ calls = <<"new_from_naive_date", "as_naive_date">>
    /\ input.data = <<Date(1969, 12, 31), Date(1970, 1, 1)>>
    /\ column.data = <<Some(-1), Some(0)>>
    /\ values = [vals |-> <<Some(Date(1969, 12, 31)), Some(Date(1970, 1, 1))>>]

(***************************************************************************)
(* C4: after a consuming call on a lazy-plan handle the handle is empty;   *)
(* from then on it stays empty and every call on it fails; the plan taken  *)
(* is an input of the plan in the returned handle; no LazyFrame value is   *)
(* consumed twice and none that was consumed is still held by a handle.    *)
(***************************************************************************)
Consuming ==
    {"filter", "select", "sort", "with_column", "with_columns", "groupby", "inner_join",
     "left_join", "outer_join", "optimization_toggle", "collect"}
Failures == {"panic", "rejected", "attribute_error"}

\* the call got past Python's dispatch and pyo3's argument extraction
EnteredBody(c) == c.result \in {"ok", "err", "panic"}

LiveIds ==
    {frames[h].some.id : h \in {k \in DOMAIN frames : IsSome(frames[k])}}
    \cup {groupbys[g].some.id : g \in {k \in DOMAIN groupbys : IsSome(groupbys[k])}}

C4_Consumed ==
    /\ (last.on = "frame" /\ last.method \in Consuming /\ EnteredBody(last)) =>
           frames[last.self] = None
    /\ last.wasEmpty => (last.result \in Failures /\ last.ret = 0)
    /\ \A i, j \in DOMAIN consumed : consumed[i] = consumed[j] => i = j
    /\ \A i \in DOMAIN consumed : consumed[i] \notin LiveIds
    /\ (last.on = "frame" /\ last.result = "ok" /\ last.method \in Consuming \ {"groupby", "collect"}) =>
           /\ last.ret \in DOMAIN frames /\ last.ret # last.self
           /\ IsSome(frames[last.ret])
           /\ frames[last.ret].some.plan.inputs[1] = last.taken.some

C4_StaysEmpty ==
    \A h \in DOMAIN frames : frames[h] = None => frames'[h] = None

C4_SingleConsumption == [](C4_Consumed) /\ [][C4_StaysEmpty]_vars

\* a second call on a handle that a builder call emptied has failed, and the
\* plan is in the handle the first call returned
C4_Witness ==
    /\ last.method = "collect" /\ last.wasEmpty /\ last.result = "panic"
    /\ frames[last.self] = None
    /\ \E h \in DOMAIN frames : IsSome(frames[h]) /\ Len(frames[h].some.plan.inputs) = 2
    /\ Len(consumed) >= 2

(***************************************************************************)
(* C8: a failure of the foreign object in read, write, flush or seek, a    *)
(* write or seek result that is no integer included, comes back as an I/O  *)
(* error whose message is the exception's own text when __str__ yields a   *)
(* string and a fixed generic text otherwise; it is never turned into a    *)
(* successful count or position.                                           *)
(***************************************************************************)
GenericMessage(e) ==
    IF e.str = "nonstring" THEN "An unknown error has occurred" ELSE "Err doesn't have __str__"

C8_ErrorsReturned ==
    io.op \in {"read", "write", "flush", "seek"} =>
        /\ IsRaised(io.answer) =>
            /\ IsIoErr(io.result)
            /\ io.result.err = IF io.answer.raised.str = "text"
                               THEN io.answer.raised.text
                               ELSE GenericMessage(io.answer.raised)
        /\ (/\ io.op \in {"write", "seek"}
            /\ ~IsRaised(io.answer)
            /\ io.answer.returned.kind # "int") =>
               /\ IsIoErr(io.result)
               /\ io.result.err = "object cannot be interpreted as an integer"
        /\ IsIoOk(io.result) =>
            /\ ~IsRaised(io.answer)
            /\ io.op \in {"write", "seek"} =>
                   /\ io.answer.returned.kind = "int"
                   /\ io.result.ok = io.answer.returned.int

\* a flush whose exception has no usable __str__, reported with the generic text
C8_Witness ==
    /\ io.op = "flush"
    /\ IsRaised(io.answer) /\ io.answer.raised.str = "raises"
    /\ io.result = IoErr("Err doesn't have __str__")

(***************************************************************************)
(* C9: groupby empties the plan handle and returns a pending-group handle  *)
(* holding the plan; that handle answers to agg alone; agg empties it and  *)
(* returns a plan handle built on the grouped plan; a second agg on it     *)
(* fails.                                                                  *)
(***************************************************************************)
C9_PendingGroup ==
    /\ (last.on = "frame" /\ last.method = "groupby" /\ last.result = "ok") =>
           /\ frames[last.self] = None
           /\ IsSome(groupbys[last.ret])
           /\ groupbys[last.ret].some.plan.inputs = <<last.taken.some>>
    /\ (last.on = "groupby" /\ last.method # "agg") => last.result = "attribute_error"
    /\ (last.on = "groupby" /\ last.method = "agg") =>
           /\ groupbys[last.self] = None
           /\ IF last.wasEmpty THEN last.result = "panic" /\ last.ret = 0
              ELSE /\ last.result = "ok"
                   /\ IsSome(frames[last.ret])
                   /\ frames[last.ret].some.plan.inputs = <<last.taken.some>>

C9_OnlyAgg ==
    /\ (last'.on = "groupby" /\ last'.result = "attribute_error") =>
           UNCHANGED <<frames, groupbys, consumed, executed>>
    /\ \A g \in DOMAIN groupbys : groupbys[g] = None => groupbys'[g] = None

C9_GroupByThenAgg == [](C9_PendingGroup) /\ [][C9_OnlyAgg]_vars

\* the second agg on a pending-group handle has failed
C9_Witness ==
    /\ last.on = "groupby" /\ last.method = "agg"
    /\ last.wasEmpty /\ last.result = "panic"
    /\ \E h \in DOMAIN frames : IsSome(frames[h]) /\ Len(frames[h].some.plan.inputs) = 1

(***************************************************************************)
(* C10: describe_plan, describe_optimized_plan and clone change no handle, *)
(* whether they succeed or fail, and run no plan; the handle clone returns *)
(* holds another value with the same plan, and a handle is emptied only by *)
(* a consuming call on itself, so consuming a clone or its original leaves *)
(* the other usable.                                                       *)
(***************************************************************************)
NonConsuming == {"describe_plan", "describe_optimized_plan", "clone"}

C10_HandleKept ==
    /\ (last.on = "frame" /\ last.method \in NonConsuming /\ ~last.wasEmpty) =>
           /\ IsSome(frames[last.self])
           /\ last.result \in {"ok", "err"}
    /\ (last.on = "frame" /\ last.method = "clone" /\ last.result = "ok") =>
           /\ last.ret # last.self
           /\ IsSome(frames[last.ret])
           /\ frames[last.ret].some.plan = frames[last.self].some.plan
           /\ frames[last.ret].some.id # frames[last.self].some.id

C10_FrameEffect ==
    /\ (last'.on = "frame" /\ last'.method \in NonConsuming) =>
           /\ \A h \in DOMAIN frames : frames'[h] = frames[h]
           /\ UNCHANGED <<groupbys, consumed, executed>>
    /\ \A h \in DOMAIN frames :
           (IsSome(frames[h]) /\ frames'[h] = None) =>
               (last'.on = "frame" /\ last'.self = h /\ last'.method \in Consuming)

C10_NonConsuming == [](C10_HandleKept) /\ [][C10_FrameEffect]_vars

\* the original of a clone has been collected and the clone still holds the plan
C10_Witness ==
    /\ last.on = "frame" /\ last.method = "collect" /\ last.result = "ok"
    /\ frames[last.self] = None
    /\ \E c \in DOMAIN frames :
          /\ c # last.self
          /\ IsSome(frames[c])
          /\ Some(frames[c].some.plan) = last.taken
          /\ frames[c].some.id \notin executed

(***************************************************************************)
(* C11: collect on a handle that holds a plan runs that plan once and ends *)
(* in a DataFrame or in one error, never both and with no new handle; in   *)
(* both outcomes the handle is empty afterwards, so a collect on it again  *)
(* panics and runs nothing.                                                *)
(***************************************************************************)
C11_Outcome ==
    (last.on = "frame" /\ last.method = "collect") =>
        /\ frames[last.self] = None
        /\ last.ret = 0
        /\ IF last.wasEmpty THEN last.result = "panic" /\ last.taken = None
           ELSE last.result \in {"ok", "err"} /\ IsSome(last.taken)

C11_Step ==
    (last'.on = "frame" /\ last'.method = "collect") =>
        IF last'.wasEmpty
        THEN /\ frames[last'.self] = None
             /\ UNCHANGED <<frames, groupbys, consumed, executed>>
        ELSE /\ IsSome(frames[last'.self])
             /\ frames' = [frames EXCEPT ![last'.self] = None]
             /\ executed' = executed \cup {frames[last'.self].some.id}
             /\ last'.taken = Some(frames[last'.self].some.plan)
             /\ UNCHANGED groupbys

C11_CollectEmptiesHandle == [](C11_Outcome) /\ [][C11_Step]_vars

\* a collect that ended in an error has left its handle empty
C11_Witness ==
    /\ last.on = "frame" /\ last.method = "collect"
    /\ ~last.wasEmpty /\ last.result = "err"
    /\ frames[last.self] = None
    /\ executed # {}

(***************************************************************************)
(* C12: a read that succeeds returns the number of bytes it copied into    *)
(* the caller's buffer, and that number is at most the buffer's length,    *)
(* whether the foreign read(n) answered with fewer, exactly or more than   *)
(* n bytes.                                                                *)
(***************************************************************************)
\* the bytes of `data` that fit a buffer of n bytes
Copied(n, data) == IF Len(data) <= n THEN Len(data) ELSE n

C12_ReadCount ==
    (io.op = "read" /\ IsIoOk(io.result)) =>
        /\ Len(buffer) = io.arg
        /\ \A i \in 1..Copied(io.arg, io.answer.returned.bytes) :
               buffer[i] = io.answer.returned.bytes[i]
        /\ io.result.ok = Copied(io.arg, io.answer.returned.bytes)
        /\ io.result.ok <= Len(buffer)

(***************************************************************************)
(* C13: a join called on a handle that holds a plan, with an `other` that  *)
(* is empty, fails, and the receiver is empty afterwards: its plan was     *)
(* taken before `other` was looked at, and no handle was made to hold it.  *)
(* A join fails this way only when `other` is empty.                       *)
(***************************************************************************)
Joins == {"inner_join", "outer_join", "left_join"}

C13_ReceiverEmptied ==
    (/\ last.on = "frame" /\ last.method \in Joins
     /\ ~last.wasEmpty /\ last.result = "panic") =>
        /\ frames[last.self] = None
        /\ IsSome(last.taken)
        /\ last.ret = 0

C13_Step ==
    (/\ last'.on = "frame" /\ last'.method \in Joins
     /\ ~last'.wasEmpty /\ last'.result \in {"ok", "panic"}) =>
        /\ IsSome(frames[last'.self])
        /\ last'.taken = Some(frames[last'.self].some.plan)
        /\ IF last'.result = "panic"
           THEN /\ \E o \in DOMAIN frames : o # last'.self /\ frames[o] = None
                /\ frames' = [frames EXCEPT ![last'.self] = None]
                /\ UNCHANGED <<groupbys, executed, nextId>>
           ELSE \E o \in DOMAIN frames :
                   /\ o # last'.self
                   /\ IsSome(frames[o])
                   /\ frames'[o] = frames[o]
                   /\ frames'[last'.ret].some.plan.inputs
                          = <<frames[last'.self].some.plan, frames[o].some.plan>>

C13_JoinWithEmptyOther == [](C13_ReceiverEmptied) /\ [][C13_Step]_vars

\* a join with an empty `other` has failed, and no handle holds the plan the
\* receiver had, as it is or as an input of another plan
C13_Witness ==
    /\ last.on = "frame" /\ last.method \in Joins
    /\ ~last.wasEmpty /\ last.result = "panic"
    /\ frames[last.self] = None
    /\ \A h \in DOMAIN frames :
           IsSome(frames[h]) =>
               /\ frames[h].some.plan # last.taken.some
               /\ \A i \in DOMAIN frames[h].some.plan.inputs :
                      frames[h].some.plan.inputs[i] # last.taken.some
====
